---- MODULE Spec2Model ----
(***************************************************************************)
(* Model of rescue-install/config_parser.py: the ZFSConfig dataclass, its  *)
(* validation (__post_init__), the .env loader (from_env_file), the value  *)
(* coercion (_parse_value) and the serializer (to_env_dict).               *)
(*                                                                         *)
(* A Python str is modelled as a sequence of one-character strings, so     *)
(* that strip, split, lower and the regular expressions are computed       *)
(* character by character as the interpreter computes them.                *)
(***************************************************************************)
EXTENDS Integers, Sequences, FiniteSets, TLC

VARIABLES
  pc,        \* what the run has done: "start", "constructed", "loaded", ...
  kwargs,    \* the field values the last construction was called with
  result,    \* what the last construction or load returned or raised
  env_file,  \* the .env file from_env_file was pointed at
  environ,   \* os.environ, the process environment
  warned,    \* the line numbers from_env_file printed a warning for
  exported,  \* the configuration to_env_dict was called on
  env_dict,  \* the dictionary to_env_dict returned
  total_steps,   \* ProgressReporter.total_steps
  current_step,  \* ProgressReporter.current_step
  steps,         \* ProgressReporter.steps, a list of ProgressStep
  start_time,    \* ProgressReporter.start_time
  returned,      \* the indices start_step returned, with the step each created
  output         \* the last reporter call: what it returned and printed

config_vars == <<pc, kwargs, result, env_file, environ, warned, exported, env_dict>>
reporter_vars == <<total_steps, current_step, steps, start_time, returned, output>>
vars == <<config_vars, reporter_vars>>

(***************************************************************************)
(* Bounds of the model.                                                    *)
(***************************************************************************)
\* longest generated word (disk suffix, hostname, raw value, list text)
MaxLen == 3
\* number of dataclass fields one direct construction overrides
MaxOverrides == 2
\* number of lines of a generated .env file
MaxLines == 2
\* number of items of a generated list field
MaxItems == 2
\* number of steps one reporter is given
MaxSteps == 2

(***************************************************************************)
(* Characters and the str methods the program uses.                        *)
(***************************************************************************)
LowerSeq == <<"a","b","c","d","e","f","g","h","i","j","k","l","m",
              "n","o","p","q","r","s","t","u","v","w","x","y","z">>
UpperSeq == <<"A","B","C","D","E","F","G","H","I","J","K","L","M",
              "N","O","P","Q","R","S","T","U","V","W","X","Y","Z">>
DigitSeq == <<"0","1","2","3","4","5","6","7","8","9">>

LowerLetters == {LowerSeq[i] : i \in 1..26}
UpperLetters == {UpperSeq[i] : i \in 1..26}
DigitChars == {DigitSeq[i] : i \in 1..10}

\* characters removed by str.strip() and separating the items of str.split()
Whitespace == {" ", "\t", "\n", "\r"}
\* the argument of .strip('"\'')
QuoteChars == {"\"", "'"}

SetMin(S) == CHOOSE m \in S : \A n \in S : m <= n
SetMax(S) == CHOOSE m \in S : \A n \in S : n <= m

\* str.strip(chars)
StripChars(s, C) ==
  LET keep == {i \in 1..Len(s) : s[i] \notin C}
  IN IF keep = {} THEN <<>> ELSE SubSeq(s, SetMin(keep), SetMax(keep))

\* str.strip()
Strip(s) == StripChars(s, Whitespace)

\* str.startswith / str.endswith
StartsWith(s, p) == Len(s) >= Len(p) /\ SubSeq(s, 1, Len(p)) = p
EndsWith(s, p) == Len(s) >= Len(p) /\ SubSeq(s, Len(s) - Len(p) + 1, Len(s)) = p

\* c in s
Contains(s, c) == \E i \in 1..Len(s) : s[i] = c

\* str.split(c): the pieces between the occurrences of c, empty ones kept
SplitChar(s, c) ==
  LET P == {i \in 1..Len(s) : s[i] = c}
      pos(k) == IF k = 0 THEN 0
                ELSE IF k = Cardinality(P) + 1 THEN Len(s) + 1
                ELSE CHOOSE i \in P : Cardinality({j \in P : j <= i}) = k
  IN [k \in 1..(Cardinality(P) + 1) |-> SubSeq(s, pos(k - 1) + 1, pos(k) - 1)]

\* str.split(c, 1): a pair when c occurs, else the string alone
SplitOnce(s, c) ==
  LET P == {i \in 1..Len(s) : s[i] = c}
  IN IF P = {} THEN <<s>>
     ELSE <<SubSeq(s, 1, SetMin(P) - 1), SubSeq(s, SetMin(P) + 1, Len(s))>>

\* str.split(): the maximal runs of non-whitespace characters
SplitWhitespace(s) ==
  LET starts == {i \in 1..Len(s) :
                   s[i] \notin Whitespace /\ (i = 1 \/ s[i - 1] \in Whitespace)}
      start(k) == CHOOSE i \in starts : Cardinality({j \in starts : j <= i}) = k
      stop(i) == SetMin({j \in i..Len(s) : j = Len(s) \/ s[j + 1] \in Whitespace})
  IN [k \in 1..Cardinality(starts) |-> SubSeq(s, start(k), stop(start(k)))]

\* sep.join(items)
RECURSIVE Join(_, _)
Join(items, sep) ==
  IF items = <<>> THEN <<>>
  ELSE IF Len(items) = 1 THEN items[1]
  ELSE items[1] \o sep \o Join(Tail(items), sep)

ToLowerChar(c) ==
  IF c \in UpperLetters THEN LowerSeq[CHOOSE i \in 1..26 : UpperSeq[i] = c] ELSE c

\* str.lower()
Lower(s) == [i \in 1..Len(s) |-> ToLowerChar(s[i])]

\* the items at the indices K, in order (a comprehension with a filter)
ItemsAt(items, K) ==
  [k \in 1..Cardinality(K) |->
     items[CHOOSE i \in K : Cardinality({j \in K : j <= i}) = k]]

(***************************************************************************)
(* int(value) and str(n).                                                  *)
(***************************************************************************)
DigitValue(c) == (CHOOSE i \in 1..10 : DigitSeq[i] = c) - 1

RECURSIVE DigitsToNat(_)
DigitsToNat(ds) ==
  IF ds = <<>> THEN 0
  ELSE DigitsToNat(SubSeq(ds, 1, Len(ds) - 1)) * 10 + DigitValue(ds[Len(ds)])

\* the digits of an int literal, after the sign: decimal digits with single
\* underscores between them
IntLiteral(sign, body) ==
  IF /\ Len(body) > 0
     /\ \A i \in 1..Len(body) : body[i] \in DigitChars \cup {"_"}
     /\ body[1] # "_" /\ body[Len(body)] # "_"
     /\ \A i \in 1..(Len(body) - 1) : ~(body[i] = "_" /\ body[i + 1] = "_")
  THEN [ok |-> TRUE,
        n |-> sign * DigitsToNat(ItemsAt(body, {i \in 1..Len(body) : body[i] # "_"}))]
  ELSE [ok |-> FALSE, n |-> 0]

SignedLiteral(t) ==
  IF Len(t) > 0 /\ t[1] \in {"+", "-"}
  THEN IntLiteral(IF t[1] = "-" THEN -1 ELSE 1, Tail(t))
  ELSE IntLiteral(1, t)

\* int(value): surrounding whitespace is ignored, a sign is optional; anything
\* that is not a literal raises ValueError (ok = FALSE)
IntParse(value) == SignedLiteral(Strip(value))

RECURSIVE NatToStr(_)
NatToStr(n) ==
  IF n < 10 THEN <<DigitSeq[n + 1]>>
  ELSE NatToStr(n \div 10) \o <<DigitSeq[(n % 10) + 1]>>

\* str(n) of an int
IntToStr(n) == IF n < 0 THEN <<"-">> \o NatToStr(0 - n) ELSE NatToStr(n)

(***************************************************************************)
(* re.match with the patterns of the validators.  `$` matches at the end   *)
(* of the string and also just before a newline that ends the string; `.`  *)
(* matches any character but a newline.                                    *)
(***************************************************************************)
DollarEnds(s) ==
  {Len(s)} \cup (IF Len(s) > 0 /\ s[Len(s)] = "\n" THEN {Len(s) - 1} ELSE {})

\* re.match(r'^[C]+$', s)
MatchClassPlus(s, C) ==
  \E e \in DollarEnds(s) : e >= 1 /\ \A i \in 1..e : s[i] \in C

\* re.match(r'.*p\d+$', s)
MatchNvmePartition(s) ==
  \E e \in DollarEnds(s) : \E k \in 1..(e - 1) :
     /\ s[k] = "p"
     /\ \A i \in 1..(k - 1) : s[i] # "\n"
     /\ \A i \in (k + 1)..e : s[i] \in DigitChars

S_dev == <<"/","d","e","v","/">>

\* re.match(r'^/dev/[sv]d[a-z]\d+$', s)
MatchSdPartition(s) ==
  \E e \in DollarEnds(s) :
     /\ e >= 9
     /\ SubSeq(s, 1, 5) = S_dev
     /\ s[6] \in {"s", "v"}
     /\ s[7] = "d"
     /\ s[8] \in LowerLetters
     /\ \A i \in 9..e : s[i] \in DigitChars

(***************************************************************************)
(* The ZFSConfig dataclass: its fields and their defaults.  An Optional    *)
(* str is a record: None carries some = FALSE.                             *)
(***************************************************************************)
None == [some |-> FALSE, v |-> <<>>]
Some(s) == [some |-> TRUE, v |-> s]

FieldNames ==
  {"disk", "hostname", "timezone", "pool_root", "pool_boot", "arc_max_mb",
   "encrypt", "ci_datasources", "force", "new_user", "new_user_sudo",
   "ssh_import_ids", "ssh_authorized_keys", "ssh_authorized_keys_urls",
   "permit_root_login", "password_auth"}

Defaults ==
  [disk |-> <<"/","d","e","v","/","s","d","a">>,
   hostname |-> <<"m","a","i","l","1">>,
   timezone |-> <<"U","T","C">>,
   pool_root |-> <<"r","p","o","o","l">>,
   pool_boot |-> <<"b","p","o","o","l">>,
   arc_max_mb |-> 2048,
   encrypt |-> FALSE,
   ci_datasources |-> << <<"C","o","n","f","i","g","D","r","i","v","e">>, <<"N","o","C","l","o","u","d">>, <<"E","c","2">> >>,
   force |-> FALSE,
   new_user |-> None,
   new_user_sudo |-> TRUE,
   ssh_import_ids |-> <<>>,
   ssh_authorized_keys |-> <<>>,
   ssh_authorized_keys_urls |-> <<>>,
   permit_root_login |-> <<"p","r","o","h","i","b","i","t","-","p","a","s","s","w","o","r","d">>,
   password_auth |-> FALSE]

(***************************************************************************)
(* Validation.  A validator yields the ValueError it raises (the message   *)
(* and the offending value formatted into it), or NoError.                 *)
(***************************************************************************)
NoError == [msg |-> "", value |-> <<>>]
ValueError(m, v) == [msg |-> m, value |-> v]

HostnameClass == LowerLetters \cup UpperLetters \cup DigitChars \cup {"-"}
PoolClass == LowerLetters \cup UpperLetters \cup DigitChars \cup {"_", "-"}
HostnameMaxLen == 63
ArcMinMb == 64
valid_permit_values == { <<"y","e","s">>, <<"n","o">>, <<"p","r","o","h","i","b","i","t","-","p","a","s","s","w","o","r","d">> }

_validate_disk(self) ==
  IF ~StartsWith(self.disk, S_dev)
  THEN ValueError("Invalid disk path", self.disk)
  ELSE IF MatchNvmePartition(self.disk) \/ MatchSdPartition(self.disk)
  THEN ValueError("appears to be a partition", self.disk)
  ELSE NoError

_validate_hostname(self) ==
  IF ~MatchClassPlus(self.hostname, HostnameClass)
  THEN ValueError("Invalid hostname", self.hostname)
  ELSE IF Len(self.hostname) > HostnameMaxLen
  THEN ValueError("Hostname too long", self.hostname)
  ELSE NoError

_validate_pools(self) ==
  IF ~MatchClassPlus(self.pool_root, PoolClass)
  THEN ValueError("Invalid pool name", self.pool_root)
  ELSE IF ~MatchClassPlus(self.pool_boot, PoolClass)
  THEN ValueError("Invalid pool name", self.pool_boot)
  ELSE IF self.arc_max_mb < ArcMinMb
  THEN ValueError("ARC max too small", IntToStr(self.arc_max_mb))
  ELSE NoError

_validate_ssh_config(self) ==
  IF self.permit_root_login \notin valid_permit_values
  THEN ValueError("Invalid permit_root_login", self.permit_root_login)
  ELSE NoError

\* one validator call followed by the rest of __post_init__: an exception
\* propagates and the rest is not run
Then(raised, rest) == IF raised # NoError THEN raised ELSE rest

\* PostInit with the hostname validated before the disk
PostInit_hostnameFirst(self) ==
  Then(_validate_hostname(self),
       Then(_validate_disk(self),
            Then(_validate_pools(self), _validate_ssh_config(self))))

\* __post_init__: the four validators in order
PostInit(self) ==
  Then(_validate_disk(self),
       Then(_validate_hostname(self),
            Then(_validate_pools(self), _validate_ssh_config(self))))

\* the outcome of a call that returns a ZFSConfig or raises
NoConfig == [none |-> TRUE]
Returned(cfg) == [status |-> "returned", config |-> cfg, error |-> NoError]
Raised(e) == [status |-> "raised", config |-> NoConfig, error |-> e]
NoResult == [status |-> "none", config |-> NoConfig, error |-> NoError]
Outcome(fields, raised) == IF raised = NoError THEN Returned(fields) ELSE Raised(raised)

\* ZFSConfig(**fields): the generated __init__ stores the fields, then
\* __post_init__ validates them
NewConfig(fields) == Outcome(fields, PostInit(fields))

(***************************************************************************)
(* The key table, the coercion of raw strings and the serializer.          *)
(***************************************************************************)
\* _get_env_mapping(): the (environment variable, field) pairs, in order
_get_env_mapping ==
  << << <<"D","I","S","K">>, "disk" >>,
     << <<"H","O","S","T","N","A","M","E">>, "hostname" >>,
     << <<"T","Z">>, "timezone" >>,
     << <<"P","O","O","L","_","R">>, "pool_root" >>,
     << <<"P","O","O","L","_","B">>, "pool_boot" >>,
     << <<"A","R","C","_","M","A","X","_","M","B">>, "arc_max_mb" >>,
     << <<"E","N","C","R","Y","P","T">>, "encrypt" >>,
     << <<"F","O","R","C","E">>, "force" >>,
     << <<"N","E","W","_","U","S","E","R">>, "new_user" >>,
     << <<"N","E","W","_","U","S","E","R","_","S","U","D","O">>, "new_user_sudo" >>,
     << <<"S","S","H","_","I","M","P","O","R","T","_","I","D","S">>, "ssh_import_ids" >>,
     << <<"S","S","H","_","A","U","T","H","O","R","I","Z","E","D","_","K","E","Y","S">>, "ssh_authorized_keys" >>,
     << <<"S","S","H","_","A","U","T","H","O","R","I","Z","E","D","_","K","E","Y","S","_","U","R","L","S">>, "ssh_authorized_keys_urls" >>,
     << <<"P","E","R","M","I","T","_","R","O","O","T","_","L","O","G","I","N">>, "permit_root_login" >>,
     << <<"P","A","S","S","W","O","R","D","_","A","U","T","H">>, "password_auth" >>,
     << <<"C","I","_","D","A","T","A","S","O","U","R","C","E","S">>, "ci_datasources" >> >>

EnvVars == {_get_env_mapping[i][1] : i \in 1..Len(_get_env_mapping)}

\* the field of a recognized environment variable
FieldOf(env_var) ==
  _get_env_mapping[CHOOSE i \in 1..Len(_get_env_mapping) :
                     _get_env_mapping[i][1] = env_var][2]

\* _env_to_field_name(env_var): mapping.get(env_var), "" standing for None
_env_to_field_name(env_var) ==
  IF env_var \in { <<"D","I","S","K">>, <<"H","O","S","T","N","A","M","E">>, <<"T","Z">>, <<"P","O","O","L","_","R">>, <<"P","O","O","L","_","B">>,
                   <<"A","R","C","_","M","A","X","_","M","B">>, <<"E","N","C","R","Y","P","T">>, <<"F","O","R","C","E">>, <<"N","E","W","_","U","S","E","R">>,
                   <<"N","E","W","_","U","S","E","R","_","S","U","D","O">>, <<"S","S","H","_","I","M","P","O","R","T","_","I","D","S">>, <<"S","S","H","_","A","U","T","H","O","R","I","Z","E","D","_","K","E","Y","S">>,
                   <<"S","S","H","_","A","U","T","H","O","R","I","Z","E","D","_","K","E","Y","S","_","U","R","L","S">>, <<"P","E","R","M","I","T","_","R","O","O","T","_","L","O","G","I","N">>,
                   <<"P","A","S","S","W","O","R","D","_","A","U","T","H">>, <<"C","I","_","D","A","T","A","S","O","U","R","C","E","S">> }
  THEN FieldOf(env_var)
  ELSE ""

IntFields == {"arc_max_mb"}
BoolFields == {"encrypt", "force", "new_user_sudo", "password_auth"}
ListFields == {"ssh_import_ids", "ssh_authorized_keys",
               "ssh_authorized_keys_urls", "ci_datasources"}
TrueTokens == { <<"1">>, <<"t","r","u","e">>, <<"y","e","s">>, <<"o","n">> }

\* [item.strip().strip('"\'') for item in items if item.strip()]
StripEach(kept) == [k \in 1..Len(kept) |-> StripChars(Strip(kept[k]), QuoteChars)]
StripItems(items) ==
  StripEach(ItemsAt(items, {i \in 1..Len(items) : Strip(items[i]) # <<>>}))

\* ParseList without the branch for the [ ] form
ParseList_alwaysWhitespace(value) ==
  IF value = <<>> THEN <<>> ELSE StripItems(SplitWhitespace(value))

\* the list branch of _parse_value
ParseList(value) ==
  IF value = <<>> THEN <<>>
  ELSE IF StartsWith(value, <<"[">>) /\ EndsWith(value, <<"]">>)
  THEN StripItems(SplitChar(SubSeq(value, 2, Len(value) - 1), ","))
  ELSE StripItems(SplitWhitespace(value))

Parsed(v) == [ok |-> TRUE, v |-> v, error |-> NoError]
IntResult(p, value) ==
  IF p.ok THEN Parsed(p.n)
  ELSE [ok |-> FALSE, v |-> 0, error |-> ValueError("invalid literal for int()", value)]

\* _parse_value without the .lower() of the boolean branch
_parse_value_caseSensitive(field_name, value) ==
  IF field_name \in IntFields THEN IntResult(IntParse(value), value)
  ELSE IF field_name \in BoolFields THEN Parsed(value \in TrueTokens)
  ELSE IF field_name \in ListFields THEN Parsed(ParseList(value))
  ELSE IF field_name = "new_user" /\ value = <<>> THEN Parsed(None)
  ELSE IF field_name = "new_user" THEN Parsed(Some(value))
  ELSE Parsed(value)

\* _parse_value(field_name, value): the typed value, or the ValueError of int()
_parse_value(field_name, value) ==
  IF field_name \in IntFields THEN IntResult(IntParse(value), value)
  ELSE IF field_name \in BoolFields THEN Parsed(Lower(value) \in TrueTokens)
  ELSE IF field_name \in ListFields THEN Parsed(ParseList(value))
  ELSE IF field_name = "new_user" /\ value = <<>> THEN Parsed(None)
  ELSE IF field_name = "new_user" THEN Parsed(Some(value))
  ELSE Parsed(value)

\* the string to_env_dict stores for one field
EnvString(field_name, value) ==
  IF field_name = "new_user" THEN (IF value.some THEN value.v ELSE <<>>)
  ELSE IF field_name \in BoolFields THEN (IF value THEN <<"1">> ELSE <<"0">>)
  ELSE IF field_name = "ci_datasources" THEN <<"[">> \o Join(value, <<",">>) \o <<"]">>
  ELSE IF field_name \in ListFields THEN Join(value, <<" ">>)
  ELSE IF field_name \in IntFields THEN IntToStr(value)
  ELSE value

\* to_env_dict(self): one string per environment variable
to_env_dict(self) ==
  [env_var \in EnvVars |-> EnvString(FieldOf(env_var), self[FieldOf(env_var)])]

(***************************************************************************)
(* from_env_file.  The loader state st is the dictionary built so far, the *)
(* line numbers warned about and the exception raised, if any.             *)
(***************************************************************************)
\* lines 107-113: the key and the value of a line that contains '='
LineKey(line) == Strip(SplitOnce(line, "=")[1])

CutComment(value) ==
  IF Contains(value, "#")
  THEN StripChars(Strip(SplitChar(value, "#")[1]), QuoteChars)
  ELSE value

LineValue(line) == CutComment(StripChars(Strip(SplitOnce(line, "=")[2]), QuoteChars))

\* config_dict[field_name] = v
DictSet(d, f, v) == [g \in DOMAIN d \cup {f} |-> IF g = f THEN v ELSE d[g]]

EmptyDict == [f \in {} |-> 0]
EmptyState == [config_dict |-> EmptyDict, warned |-> <<>>, error |-> NoError]

\* config_dict[field_name] = cls._parse_value(field_name, value)
Store(st, field_name, parsed) ==
  IF parsed.ok THEN [st EXCEPT !.config_dict = DictSet(@, field_name, parsed.v)]
  ELSE [st EXCEPT !.error = parsed.error]

StoreParsed(st, field_name, value) ==
  Store(st, field_name, _parse_value(field_name, value))

\* Assign raising on a key that is not in the table
Assign_strict(st, field_name, value) ==
  IF field_name = "" THEN [st EXCEPT !.error = ValueError("unknown key", value)]
  ELSE StoreParsed(st, field_name, value)

\* lines 116-118: unrecognized keys are dropped
Assign(st, field_name, value) ==
  IF field_name = "" THEN st ELSE StoreParsed(st, field_name, value)

\* lines 99-118: one line of the file, already stripped, with its number n
ProcessLine(st, n, line) ==
  IF line = <<>> \/ line[1] = "#" THEN st
  ELSE IF ~Contains(line, "=") THEN [st EXCEPT !.warned = Append(@, n)]
  ELSE Assign(st, _env_to_field_name(LineKey(line)), LineValue(line))

\* the loop over the lines of the file (lines 98-118), from line number n on;
\* an exception ends it
RECURSIVE ReadLines(_, _, _)
ReadLines(lines, n, st) ==
  IF n > Len(lines) \/ st.error # NoError THEN st
  ELSE ReadLines(lines, n + 1, ProcessLine(st, n, Strip(lines[n])))

\* OverlayVar keeping the value the file gave
OverlayVar_fileWins(env, st, env_var, field_name) ==
  IF env_var \in DOMAIN env /\ field_name \notin DOMAIN st.config_dict
  THEN StoreParsed(st, field_name, env[env_var])
  ELSE st

\* lines 122-124: one entry of the key table
OverlayVar(env, st, env_var, field_name) ==
  IF env_var \in DOMAIN env THEN StoreParsed(st, field_name, env[env_var]) ELSE st

\* the loop over the key table (lines 121-124), from entry i on
RECURSIVE OverlayEnviron(_, _, _)
OverlayEnviron(env, i, st) ==
  IF i > Len(_get_env_mapping) \/ st.error # NoError THEN st
  ELSE OverlayEnviron(env, i + 1,
         OverlayVar(env, st, _get_env_mapping[i][1], _get_env_mapping[i][2]))

\* cls(**config_dict): the fields not given keep their defaults
WithDefaults(config_dict) ==
  [f \in FieldNames |-> IF f \in DOMAIN config_dict THEN config_dict[f] ELSE Defaults[f]]

MissingFile == [exists |-> FALSE, lines |-> <<>>]
File(lines) == [exists |-> TRUE, lines |-> lines]

\* lines 96-118
ReadFile(file) ==
  IF file.exists THEN ReadLines(file.lines, 1, EmptyState) ELSE EmptyState

\* line 126, or the exception that ended the loading
Build(st, fields) ==
  [kwargs |-> fields, warned |-> st.warned,
   result |-> IF st.error # NoError THEN Raised(st.error) ELSE NewConfig(fields)]

Finish(st) == Build(st, WithDefaults(st.config_dict))

\* from_env_file(env_file) with the process environment env
from_env_file(file, env) == Finish(OverlayEnviron(env, 1, ReadFile(file)))

(***************************************************************************)
(* The inputs the operations are exercised with.                           *)
(***************************************************************************)
\* the strings over the characters A of length at most n
Words(A, n) == UNION {[1..k -> A] : k \in 0..n}
\* the sequences of at most n members of S
SeqsUpTo(S, n) == UNION {[1..k -> S] : k \in 0..n}
Rep(c, n) == [i \in 1..n |-> c]

\* device paths: a prefix followed by a generated suffix
DiskPrefixes == { <<>>, <<"/","d","e","v","/">>, <<"/","d","e","v","/","s","d">>, <<"/","d","e","v","/","v","d">>, <<"/","d","e","v","/","n","v","m","e","0","n">>,
                  <<"/","d","e","v","/","l","o","o">>, <<"d","e","v","/","s","d">> }
DiskSweep == {p \o w : p \in DiskPrefixes, w \in Words({"a", "p", "1"}, MaxLen)}

\* hostnames: every short word over legal and illegal characters, and the
\* names around the length limit
HostnameChars == {"a", "Z", "1", "-", "_", ".", " ", "\n"}
HostnameSweep ==
  Words(HostnameChars, MaxLen)
    \cup {Rep("a", HostnameMaxLen + d) \o t :
            d \in {-1, 0, 1}, t \in {<<>>, <<"-">>, <<"\n">>, <<"_">>}}

\* list values: lists of items of at most one character, and lists of one
\* longer item; an item may be a separator or a quote
ListItemSweep == Words({"a", " ", ",", "'"}, MaxLen)
ListSweep ==
  SeqsUpTo({w \in ListItemSweep : Len(w) <= 1}, MaxItems)
    \cup {<<w>> : w \in ListItemSweep}

\* the values one overridden field of a direct construction is drawn from
FieldDomain(f) ==
  CASE f = "disk" -> { <<"/","d","e","v","/","s","d","b">>, <<"/","d","e","v","/","s","d","a","1">>, <<"s","d","a">>, <<"/","d","e","v","/","s","d","a","a","1">> }
    [] f = "hostname" -> { <<"h","-","1">>, <<"a","_","b">>, <<"a","\n">>, Rep("a", HostnameMaxLen + 1) }
    [] f = "timezone" -> { <<"E","u","r","o","p","e","/","O","s","l","o">>, <<" ","a","#","b"," ">> }
    [] f = "pool_root" -> { <<"t","a","n","k">>, <<"p","o"," ","o","l">> }
    [] f = "pool_boot" -> { <<"b","_","1">>, <<"b","@","d">> }
    [] f = "arc_max_mb" -> {ArcMinMb - 1, ArcMinMb, -5}
    [] f \in BoolFields -> {~Defaults[f]}
    [] f = "new_user" -> {None, Some( <<"b","o","b">> ), Some(<<>>)}
    [] f \in ListFields -> { << <<"g","h",":","u","s","e","r","1">>, <<"g","h",":","u","s","e","r","2">> >>,
                             << <<"s","s","h","-","r","s","a"," ","A","A","A">> >>, << <<"a">>, <<>> >> }
    [] f = "permit_root_login" -> { <<"y","e","s">>, <<"Y","e","s">>, <<"w","i","t","h","o","u","t","-","p","a","s","s","w","o","r","d">> }

\* the keyword arguments that give at most n of the fields `fields` a value
\* of their own, on top of kw
RECURSIVE Overridden(_, _, _)
Overridden(kw, fields, n) ==
  IF n = 0 \/ fields = {} THEN {kw}
  ELSE LET f == CHOOSE x \in fields : TRUE
       IN Overridden(kw, fields \ {f}, n)
            \cup UNION {Overridden([kw EXCEPT ![f] = v], fields \ {f}, n - 1) :
                          v \in FieldDomain(f)}

KwargsSpace ==
  Overridden(Defaults, FieldNames, MaxOverrides)
    \cup {[Defaults EXCEPT !.disk = d] : d \in DiskSweep}
    \cup {[Defaults EXCEPT !.hostname = h] : h \in HostnameSweep}
    \cup {[Defaults EXCEPT ![f] = l] : f \in ListFields, l \in ListSweep}

\* lines of an .env file
S_TZ_eq == <<"T","Z","=">>
CuratedLines ==
  { <<" "," ">>, <<" "," ","#","T","Z","=","x">>, <<"n","o","v","a","l","u","e">>,
    <<"e","x","p","o","r","t"," ","T","Z","=","x">>,
    <<"H","O","S","T","N","A","M","E","=","f","r","o","m","f","i","l","e">>, <<"D","I","S","K","=","/","d","e","v","/","s","d","a"," "," ","#"," ","T","h","i","s"," ","i","s"," ","a","n"," ","i","n","l","i","n","e"," ","c","o","m","m","e","n","t">>,
    <<"A","R","C","_","M","A","X","_","M","B","=","a","b","c">>, <<"A","R","C","_","M","A","X","_","M","B","=","4","0","9","6">>, <<" ","T","Z"," ","="," ","'","x","=","y","'"," ">>,
    <<"H","O","S","T","N","A","M","E","=","b","a","d"," ","h","o","s","t">> }
RawValueSweep == Words({"a", "#", "\"", "'", " "}, MaxLen)

\* raw values of boolean and list variables
BoolRawSweep ==
  Words({"o", "n", "N", "1", " "}, MaxLen)
    \cup { <<"O","N">>, <<"O","n">>, <<"t","r","u","e">>, <<"T","r","u","e">>, <<"T","R","U","E">>, <<"t","R","u","E">>, <<"y","e","s">>, <<"Y","E","S">>, <<"Y","e","s">>,
           <<"f","a","l","s","e">>, <<"F","a","l","s","e">>, <<"o","f","f">>, <<"0">>, <<"2">>, <<"y">>, <<"t">>,
           <<"e","n","a","b","l","e","d">>, <<"y","e","s","1">>, <<"t","r","u","e","e">>, <<"t","r","u">> }
ListRawChars == {"a", ",", " ", "'"}
ListRawSweep ==
  Words(ListRawChars \cup {"[", "]"}, MaxLen)
    \cup {<<"[">> \o w \o <<"]">> : w \in Words(ListRawChars, MaxLen)}
    \cup { <<"g","h",":","u","s","e","r","1"," ","g","h",":","u","s","e","r","2">>, <<"[","C","o","n","f","i","g","D","r","i","v","e",",","N","o","C","l","o","u","d",",","E","c","2","]">> }

NoEnviron == [k \in {} |-> <<>>]
OneVar(k, v) == [x \in {k} |-> v]
CuratedEnvirons ==
  { NoEnviron, OneVar( <<"H","O","S","T","N","A","M","E">>, <<"f","r","o","m","e","n","v">> ), OneVar( <<"T","Z">>, <<" ","E"," ">> ),
    OneVar( <<"A","R","C","_","M","A","X","_","M","B">>, <<"1","2","8">> ), OneVar( <<"A","R","C","_","M","A","X","_","M","B">>, <<"x">> ),
    OneVar( <<"F","O","O">>, <<"1">> ), OneVar( <<"H","O","S","T","N","A","M","E">>, <<"a","\n">> ) }

\* the (file, environment) pairs from_env_file is called in
LoadInputs ==
  {[file |-> f, env |-> e] :
     f \in {MissingFile} \cup {File(ls) : ls \in SeqsUpTo(CuratedLines, MaxLines)},
     e \in CuratedEnvirons}
    \cup {[file |-> File(<<S_TZ_eq \o raw>>), env |-> NoEnviron] : raw \in RawValueSweep}
    \cup {[file |-> MissingFile, env |-> OneVar(k, raw)] :
            k \in {e \in EnvVars : FieldOf(e) \in BoolFields}, raw \in BoolRawSweep}
    \cup {[file |-> MissingFile, env |-> OneVar(k, raw)] :
            k \in {e \in EnvVars : FieldOf(e) \in ListFields}, raw \in ListRawSweep}

(***************************************************************************)
(* progress_reporter.py: ProgressStep and ProgressReporter.                *)
(*                                                                         *)
(* A time is a whole number of clock ticks.  time.time() is an input of    *)
(* every call that reads it: the wall clock is the operating system's, and *)
(* a reading may be lower than an earlier one when the clock was set back  *)
(* in between.  A reading is never 0 (the clock is past the epoch).  Two    *)
(* readings let one call read the clock before, at or after another.       *)
(***************************************************************************)
Times == {1, 2}

\* Optional[float] and Optional[str]
NoTime == [some |-> FALSE, v |-> 0]
At(t) == [some |-> TRUE, v |-> t]
NoText == [some |-> FALSE, v |-> ""]
Text(m) == [some |-> TRUE, v |-> m]
\* bool(x) of an Optional[float]
TruthyTime(x) == x.some /\ x.v # 0

\* ProgressStep(name=..., description=..., started=...)
ProgressStep(name, description, started) ==
  [name |-> name, description |-> description,
   started |-> started, completed |-> NoTime, error |-> NoText]
is_started(step) == step.started.some
is_completed(step) == step.completed.some
is_error(step) == step.error.some
duration(step) ==
  IF TruthyTime(step.started) /\ TruthyTime(step.completed)
  THEN At(step.completed.v - step.started.v)
  ELSE NoTime

\* what one call leaves for its caller and on the console: the console is
\* modelled by the level of the line the call logged and, for the progress
\* line of start_step, its counter "(n/of)" (of = 0: "(n)")
NoLog == [level |-> "", n |-> 0, of |-> 0]
LogLine(level) == [level |-> level, n |-> 0, of |-> 0]
NoReport ==
  [total_time |-> 0, completed_steps |-> 0, total_steps |-> 0, failed_steps |-> 0,
   current_step |-> 0, failed |-> <<>>, steps |-> <<>>]
\* the call returned None / took no step_index
NoReturn == -1
NoIndex == -1
Called(op, step_index, ret, log, report) ==
  [op |-> op, step_index |-> step_index, ret |-> ret, log |-> log, report |-> report]

\* 0 <= step_index < len(self.steps)
InRange(step_index, ss) == 0 <= step_index /\ step_index < Len(ss)

\* start_step: the steps after lines 108-109
start_step_atFront(ss, name, description, t) ==
  <<ProgressStep(name, description, At(t))>> \o ss
start_step(ss, name, description, t) ==
  Append(ss, ProgressStep(name, description, At(t)))
\* lines 114-115: the progress prefix
StartLog(cur, total) ==
  [level |-> "INFO", n |-> cur, of |-> IF total > 0 THEN total ELSE 0]

\* complete_step: the steps after lines 121-123
complete_step(ss, step_index, t) ==
  IF InRange(step_index, ss)
  THEN [ss EXCEPT ![step_index + 1].completed = At(t)]
  ELSE ss
\* lines 125-130: each branch logs one success line
CompleteLog(ss, step_index) ==
  IF InRange(step_index, ss) THEN LogLine("SUCCESS") ELSE NoLog

\* fail_step: the steps after lines 134-136
fail_step_alsoCompletes(ss, step_index, error_message) ==
  IF InRange(step_index, ss)
  THEN [ss EXCEPT ![step_index + 1].error = Text(error_message),
                  ![step_index + 1].completed = ss[step_index + 1].started]
  ELSE ss
fail_step(ss, step_index, error_message) ==
  IF InRange(step_index, ss)
  THEN [ss EXCEPT ![step_index + 1].error = Text(error_message)]
  ELSE ss
\* line 137
FailLog(ss, step_index) ==
  IF InRange(step_index, ss) THEN LogLine("ERROR") ELSE NoLog

\* sum(1 for step in self.steps if step.is_completed), .. if step.is_error
completed_steps(ss) == Cardinality({i \in 1..Len(ss) : is_completed(ss[i])})
failed_steps_truthy(ss) ==
  Cardinality({i \in 1..Len(ss) : ss[i].error.some /\ ss[i].error.v # ""})
failed_steps(ss) == Cardinality({i \in 1..Len(ss) : is_error(ss[i])})

\* lines 154-156: one line "i+1. name: error" per step with an error
FailedLines(ss) ==
  LET F == {i \in 1..Len(ss) : is_error(ss[i])}
      Nth(k) == CHOOSE i \in F : Cardinality({j \in F : j < i}) = k - 1
  IN [k \in 1..Cardinality(F) |->
        [n |-> Nth(k), name |-> ss[Nth(k)].name, error |-> ss[Nth(k)].error.v]]

\* show_summary: what it prints
show_summary(ss, elapsed) ==
  [total_time |-> elapsed,
   completed_steps |-> completed_steps(ss),
   total_steps |-> Len(ss),
   failed_steps |-> failed_steps(ss),
   current_step |-> 0,
   failed |-> IF failed_steps(ss) > 0 THEN FailedLines(ss) ELSE <<>>,
   steps |-> <<>>]

\* get_status_json: the status dictionary that is serialized
StepStatus(step) ==
  [name |-> step.name, description |-> step.description,
   started |-> step.started, completed |-> step.completed,
   error |-> step.error, duration |-> duration(step)]
get_status_json(ss, cur, elapsed) ==
  [total_time |-> elapsed,
   completed_steps |-> completed_steps(ss),
   total_steps |-> Len(ss),
   failed_steps |-> failed_steps(ss),
   current_step |-> cur,
   failed |-> <<>>,
   steps |-> [i \in 1..Len(ss) |-> StepStatus(ss[i])]]

\* the inputs of the calls
\* the phases of the installation, started in this order
Phases ==
  << [name |-> "prereqs", description |-> "Installing rescue prerequisites"],
     [name |-> "partition", description |-> "Partitioning disk"],
     [name |-> "pools", description |-> "Creating ZFS pools"],
     [name |-> "datasets", description |-> "Creating ZFS datasets"],
     [name |-> "debootstrap", description |-> "Running debootstrap"],
     [name |-> "chroot", description |-> "Configuring system in chroot"],
     [name |-> "teardown", description |-> "Cleaning up and setting runtime mountpoints"] >>
StepIndexes == (-1)..MaxSteps
ErrorMessages == {"Simulated failure", ""}

\* ProgressReporter(total_steps=total), constructed when the clock reads t
\* (the first reading of a run)
ReporterFresh(total, t) ==
  /\ total_steps = total
  /\ current_step = 0
  /\ steps = <<>>
  /\ start_time = t
  /\ returned = <<>>
  /\ output = Called("__init__", NoIndex, NoReturn, NoLog, NoReport)

(***************************************************************************)
(* The state machine: one run of the program calls the constructor or the  *)
(* loader once, may serialize the configuration it got, and may load the   *)
(* serialized values back.                                                 *)
(***************************************************************************)
ConfigFresh ==
  /\ pc = "start"
  /\ kwargs = Defaults
  /\ result = NoResult
  /\ env_file = MissingFile
  /\ environ = NoEnviron
  /\ warned = <<>>
  /\ exported = NoConfig
  /\ env_dict = NoEnviron

\* a run of the configuration parser: the reporter is constructed, not used
Init == ConfigFresh /\ ReporterFresh(0, 1)

\* ZFSConfig(**kw)
Construct ==
  /\ pc = "start"
  /\ \E kw \in KwargsSpace :
       /\ kwargs' = kw
       /\ result' = NewConfig(kw)
  /\ pc' = "constructed"
  /\ UNCHANGED <<env_file, environ, warned, exported, env_dict>>
  /\ UNCHANGED reporter_vars

\* what a call of from_env_file leaves behind
Loaded(r) ==
  /\ kwargs' = r.kwargs
  /\ warned' = r.warned
  /\ result' = r.result

LoadIn(file, env) ==
  /\ env_file' = file
  /\ environ' = env
  /\ Loaded(from_env_file(file, env))

\* ZFSConfig.from_env_file(path), called with the file and the environment
\* the caller prepared
FromEnvFile ==
  /\ pc = "start"
  /\ \E in \in LoadInputs : LoadIn(in.file, in.env)
  /\ pc' = "loaded"
  /\ UNCHANGED <<exported, env_dict>>
  /\ UNCHANGED reporter_vars

\* config.to_env_dict() on the configuration the run obtained
ToEnvDict ==
  /\ pc \in {"constructed", "loaded"}
  /\ result.status = "returned"
  /\ exported' = result.config
  /\ env_dict' = to_env_dict(result.config)
  /\ pc' = "exported"
  /\ UNCHANGED <<kwargs, result, env_file, environ, warned>>
  /\ UNCHANGED reporter_vars

\* the serialized values become the process environment and the loader
\* coerces them back (there is no file): _parse_value per key, then cls(**d)
Reload ==
  /\ pc = "exported"
  /\ LoadIn(MissingFile,
            [k \in DOMAIN environ \cup EnvVars |->
               IF k \in EnvVars THEN env_dict[k] ELSE environ[k]])
  /\ pc' = "reloaded"
  /\ UNCHANGED <<exported, env_dict>>
  /\ UNCHANGED reporter_vars

Next == Construct \/ FromEnvFile \/ ToEnvDict \/ Reload

Spec == Init /\ [][Next]_vars

(***************************************************************************)
(* The reporter's state machine: a caller starts steps, completes and      *)
(* fails them by index, in range or not, and asks for the summary or the   *)
(* status at any time.                                                     *)
(***************************************************************************)
ReporterInit ==
  /\ ConfigFresh
  /\ \E total \in {0, MaxSteps} : ReporterFresh(total, 1)

\* reporter.start_step(name, description)
StartStep ==
  /\ Len(steps) < MaxSteps /\ Len(steps) < Len(Phases)
  /\ \E t \in Times :
       /\ steps' = start_step(steps, Phases[Len(steps) + 1].name,
                              Phases[Len(steps) + 1].description, t)
       /\ returned' = Append(returned,
                             [index |-> Len(steps') - 1,
                              step |-> ProgressStep(Phases[Len(steps) + 1].name,
                                                    Phases[Len(steps) + 1].description, At(t))])
  /\ current_step' = Len(steps') - 1 + 1
  /\ output' = Called("start_step", NoIndex, Len(steps') - 1,
                      StartLog(current_step', total_steps),
                      NoReport)
  /\ UNCHANGED <<total_steps, start_time>>
  /\ UNCHANGED config_vars

\* reporter.complete_step(step_index, success_message)
CompleteStep ==
  /\ \E step_index \in StepIndexes, t \in Times :
       /\ steps' = complete_step(steps, step_index, t)
       /\ output' = Called("complete_step", step_index, NoReturn,
                           CompleteLog(steps, step_index), NoReport)
  /\ UNCHANGED <<total_steps, current_step, start_time, returned>>
  /\ UNCHANGED config_vars

\* reporter.fail_step(step_index, error_message)
FailStep ==
  /\ \E step_index \in StepIndexes, error_message \in ErrorMessages :
       /\ steps' = fail_step(steps, step_index, error_message)
       /\ output' = Called("fail_step", step_index, NoReturn,
                           FailLog(steps, step_index), NoReport)
  /\ UNCHANGED <<total_steps, current_step, start_time, returned>>
  /\ UNCHANGED config_vars

\* reporter.show_summary()
ShowSummary ==
  /\ \E t \in Times :
       output' = Called("show_summary", NoIndex, NoReturn, NoLog,
                        show_summary(steps, t - start_time))
  /\ UNCHANGED <<total_steps, current_step, steps, start_time, returned>>
  /\ UNCHANGED config_vars

\* reporter.get_status_json()
GetStatusJson ==
  /\ \E t \in Times :
       output' = Called("get_status_json", NoIndex, NoReturn, NoLog,
                        get_status_json(steps, current_step, t - start_time))
  /\ UNCHANGED <<total_steps, current_step, steps, start_time, returned>>
  /\ UNCHANGED config_vars

ReporterNext == StartStep \/ CompleteStep \/ FailStep \/ ShowSummary \/ GetStatusJson

ReporterSpec == ReporterInit /\ [][ReporterNext]_vars

(***************************************************************************)
(* Properties.                                                             *)
(***************************************************************************)
\* a load has run: by from_env_file directly, or on the serialized values
HasLoaded == pc \in {"loaded", "reloaded"}

\* The field constraints as the data model states them, written on the
\* characters of the value and not with the validators' regular expressions.
AllIn(s, C) == \A i \in 1..Len(s) : s[i] \in C
AlnumChars == LowerLetters \cup UpperLetters \cup DigitChars
\* NVMe-style: a p followed by digits up to the end
NvmeStylePartition(d) ==
  \E k \in 1..(Len(d) - 1) : d[k] = "p" /\ \A i \in (k + 1)..Len(d) : d[i] \in DigitChars
\* SATA/SCSI-style: /dev/sdX.. or /dev/vdX.. followed by digits up to the end
ScsiStylePartition(d) ==
  /\ StartsWith(d, S_dev)
  /\ Len(d) >= 9
  /\ d[6] \in {"s", "v"} /\ d[7] = "d"
  /\ \E m \in 8..(Len(d) - 1) :
       /\ \A i \in 8..m : d[i] \in LowerLetters
       /\ \A i \in (m + 1)..Len(d) : d[i] \in DigitChars
NamesPartition(d) == NvmeStylePartition(d) \/ ScsiStylePartition(d)
WholeDiskPath(d) == StartsWith(d, S_dev) /\ ~NamesPartition(d)
HostnameOk(h) == Len(h) >= 1 /\ Len(h) <= 63 /\ AllIn(h, AlnumChars \cup {"-"})
PoolNameOk(p) == AllIn(p, AlnumChars \cup {"-", "_"})
PermitOk(v) == v \in { <<"y","e","s">>, <<"n","o">>, <<"p","r","o","h","i","b","i","t","-","p","a","s","s","w","o","r","d">> }
ConstraintsHold(c) ==
  /\ WholeDiskPath(c.disk)
  /\ HostnameOk(c.hostname)
  /\ PoolNameOk(c.pool_root) /\ PoolNameOk(c.pool_boot)
  /\ c.arc_max_mb >= 64
  /\ PermitOk(c.permit_root_login)

\* C1: Round trip.  For every valid configuration c, to_env_dict(c) coerced
\* back through the loading path (_parse_value per key, then construction)
\* returns a configuration equal to c in every field.
C1_RoundTrip ==
  (pc = "reloaded" /\ ConstraintsHold(exported)) => result = Returned(exported)

\* C2: Every ZFSConfig that is returned, by direct construction or by
\* from_env_file, satisfies all the field constraints; when a constraint is
\* violated the construction raises and returns no instance.
C2_ObservableIsValid ==
  /\ result.status = "returned" => ConstraintsHold(result.config)
  /\ (pc = "constructed" /\ ~ConstraintsHold(kwargs)) => result.status = "raised"

\* the value the file gives variable K: that of the last line assigning it
AssigningLines(K) ==
  {n \in 1..Len(env_file.lines) :
     /\ Strip(env_file.lines[n]) # <<>>
     /\ Strip(env_file.lines[n])[1] # "#"
     /\ Contains(env_file.lines[n], "=")
     /\ LineKey(Strip(env_file.lines[n])) = K}
FileDefines(K) == env_file.exists /\ AssigningLines(K) # {}
FileValue(K) == LineValue(Strip(env_file.lines[SetMax(AssigningLines(K))]))
Coerced(K, raw) == _parse_value(FieldOf(K), raw).v
Precedence(K, loaded) ==
  IF K \in DOMAIN environ THEN loaded = Coerced(K, environ[K])
  ELSE IF FileDefines(K) THEN loaded = Coerced(K, FileValue(K))
  ELSE loaded = Defaults[FieldOf(K)]

\* C3: Override precedence.  In the configuration from_env_file returns,
\* the field of every recognized key K is the coercion of the environment
\* value when the environment sets K, whatever the file holds for K; else
\* the coercion of the file's value when the file defines K; else the
\* default.
C3_OverridePrecedence ==
  (HasLoaded /\ result.status = "returned") =>
     \A K \in EnvVars : Precedence(K, result.config[FieldOf(K)])

C3_Witness ==
  /\ pc = "loaded" /\ result.status = "returned"
  /\ FileDefines( <<"H","O","S","T","N","A","M","E">> ) /\ FileValue( <<"H","O","S","T","N","A","M","E">> ) = <<"f","r","o","m","f","i","l","e">>
  /\ <<"H","O","S","T","N","A","M","E">> \in DOMAIN environ
  /\ result.config.hostname = <<"f","r","o","m","e","n","v">>

\* a direct construction that overrides field f alone
OnlyOverrides(f) ==
  pc = "constructed" /\ \A g \in FieldNames \ {f} : kwargs[g] = Defaults[g]

\* C4: Disk validation.  Construction fails for every disk value that names
\* a partition (NVMe-style pNN suffix, SATA/SCSI-style trailing digits) and
\* for every value not beginning with /dev/; it succeeds, with the disk
\* unchanged, for every whole-disk value under /dev/.
C4_DiskValidation ==
  OnlyOverrides("disk") =>
     IF WholeDiskPath(kwargs.disk)
     THEN result.status = "returned" /\ result.config.disk = kwargs.disk
     ELSE result.status = "raised"

\* C5: Hostname validation.  Construction fails for every hostname that is
\* empty, longer than 63 characters or holds a character other than an
\* ASCII letter, digit or hyphen; it succeeds for every hostname of 1 to 63
\* such characters.
C5_HostnameValidation ==
  OnlyOverrides("hostname") =>
     IF HostnameOk(kwargs.hostname)
     THEN result.status = "returned" /\ result.config.hostname = kwargs.hostname
     ELSE result.status = "raised"

\* which of the six checks a field set fails, each stated on its own field
DiskBad(k) == _validate_disk(k) # NoError
HostnameBad(k) == _validate_hostname(k) # NoError
RootPoolBad(k) == ~MatchClassPlus(k.pool_root, PoolClass)
BootPoolBad(k) == ~MatchClassPlus(k.pool_boot, PoolClass)
ArcBad(k) == k.arc_max_mb < 64
PermitBad(k) == ~PermitOk(k.permit_root_login)
ErrorIs(msgs, value) == result.error.msg \in msgs /\ result.error.value = value
FirstFailure(k) ==
  IF DiskBad(k)
  THEN ErrorIs({"Invalid disk path", "appears to be a partition"}, k.disk)
  ELSE IF HostnameBad(k)
  THEN ErrorIs({"Invalid hostname", "Hostname too long"}, k.hostname)
  ELSE IF RootPoolBad(k) THEN ErrorIs({"Invalid pool name"}, k.pool_root)
  ELSE IF BootPoolBad(k) THEN ErrorIs({"Invalid pool name"}, k.pool_boot)
  ELSE IF ArcBad(k) THEN ErrorIs({"ARC max too small"}, IntToStr(k.arc_max_mb))
  ELSE IF PermitBad(k) THEN ErrorIs({"Invalid permit_root_login"}, k.permit_root_login)
  ELSE result.status = "returned"

\* C6: First-failure order.  When several fields of one construction are
\* invalid, the error raised is that of the earliest failing check in the
\* order disk, hostname, root pool name, boot pool name, ARC size,
\* permit_root_login.
C6_FirstFailureOrder == pc = "constructed" => FirstFailure(kwargs)

C6_Witness ==
  /\ pc = "constructed"
  /\ HostnameBad(kwargs) /\ ArcBad(kwargs) /\ ~DiskBad(kwargs)
  /\ result.status = "raised"
  /\ result.error.msg = "Invalid hostname"

\* the one environment variable of a load that has no file
SoleVar == CHOOSE K \in DOMAIN environ : TRUE
EnvOnlyLoad(fields) ==
  /\ pc = "loaded" /\ ~env_file.exists
  /\ Cardinality(DOMAIN environ) = 1
  /\ SoleVar \in EnvVars /\ FieldOf(SoleVar) \in fields

\* equal but for the case of the letters
SameLetter(a, b) ==
  a = b \/ \E i \in 1..26 : {a, b} = {LowerSeq[i], UpperSeq[i]}
EqualIgnoringCase(s, t) ==
  Len(s) = Len(t) /\ \A i \in 1..Len(s) : SameLetter(s[i], t[i])
IsTrueToken(raw) ==
  \E t \in { <<"1">>, <<"t","r","u","e">>, <<"y","e","s">>, <<"o","n">> } : EqualIgnoringCase(raw, t)

\* C7: Boolean coercion.  For encrypt, force, new_user_sudo and
\* password_auth a raw value yields true exactly when it is, compared
\* case-insensitively, one of "1", "true", "yes", "on"; every other string
\* yields false, and none raises.
C7_BooleanCoercion ==
  EnvOnlyLoad({"encrypt", "force", "new_user_sudo", "password_auth"}) =>
     /\ result.status = "returned"
     /\ result.config[FieldOf(SoleVar)] = IsTrueToken(environ[SoleVar])

C7_Witness ==
  /\ EnvOnlyLoad({"encrypt"})
  /\ environ[SoleVar] = <<"O","N">>
  /\ result.status = "returned" /\ result.config.encrypt = TRUE

\* The elements of a list value, read off the text one character at a time.
RECURSIVE DropLeading(_, _)
DropLeading(s, C) ==
  IF s # <<>> /\ Head(s) \in C THEN DropLeading(Tail(s), C) ELSE s
RECURSIVE DropTrailing(_, _)
DropTrailing(s, C) ==
  IF s # <<>> /\ s[Len(s)] \in C THEN DropTrailing(SubSeq(s, 1, Len(s) - 1), C) ELSE s
Trimmed(s, C) == DropTrailing(DropLeading(s, C), C)
\* the pieces of s between the separators Sep, cur being the piece under way
RECURSIVE Pieces(_, _, _)
Pieces(s, Sep, cur) ==
  IF s = <<>> THEN <<cur>>
  ELSE IF Head(s) \in Sep THEN <<cur>> \o Pieces(Tail(s), Sep, <<>>)
  ELSE Pieces(Tail(s), Sep, Append(cur, Head(s)))
\* the pieces that hold an element, each without its surrounding blanks
\* and then without its surrounding quote characters
RECURSIVE Elements(_)
Elements(pieces) ==
  IF pieces = <<>> THEN <<>>
  ELSE IF Trimmed(Head(pieces), Whitespace) = <<>> THEN Elements(Tail(pieces))
  ELSE <<Trimmed(Trimmed(Head(pieces), Whitespace), {"\"", "'"})>>
         \o Elements(Tail(pieces))
ExpectedList(raw) ==
  IF raw = <<>> THEN <<>>
  ELSE IF Head(raw) = "[" /\ raw[Len(raw)] = "]" /\ Len(raw) >= 2
  THEN Elements(Pieces(SubSeq(raw, 2, Len(raw) - 1), {","}, <<>>))
  ELSE Elements(Pieces(raw, Whitespace, <<>>))

\* C8: List coercion.  For each list field the empty string yields the
\* empty sequence; a value wrapped in [ ] yields its comma-separated
\* elements in order; any other value yields its whitespace-separated
\* elements in order; each element has its surrounding quote characters
\* stripped.  (An element is a piece that is not blank, without the blanks
\* around it.)
C8_ListCoercion ==
  EnvOnlyLoad({"ssh_import_ids", "ssh_authorized_keys",
               "ssh_authorized_keys_urls", "ci_datasources"}) =>
     /\ result.status = "returned"
     /\ result.config[FieldOf(SoleVar)] = ExpectedList(environ[SoleVar])

C8_Witness ==
  /\ EnvOnlyLoad({"ci_datasources"})
  /\ environ[SoleVar] = <<"[","C","o","n","f","i","g","D","r","i","v","e",",","N","o","C","l","o","u","d",",","E","c","2","]">>
  /\ result.status = "returned"
  /\ result.config.ci_datasources = << <<"C","o","n","f","i","g","D","r","i","v","e">>, <<"N","o","C","l","o","u","d">>, <<"E","c","2">> >>

PlainChars(s) == \A i \in 1..Len(s) : s[i] \notin Whitespace \cup {"#", "\"", "'"}
\* value, blanks, then a comment
TrailingComment(raw, value) ==
  /\ value # <<>> /\ PlainChars(value) /\ StartsWith(raw, value)
  /\ \E k \in (Len(value) + 2)..Len(raw) :
       /\ raw[k] = "#"
       /\ \A i \in (Len(value) + 1)..(k - 1) : raw[i] = " "
\* one pair of matching quotes around a body that holds a '#'
QuotedWithHash(raw, body) ==
  /\ Len(raw) = Len(body) + 2
  /\ raw[1] \in {"\"", "'"} /\ raw[Len(raw)] = raw[1]
  /\ body = SubSeq(raw, 2, Len(raw) - 1)
  /\ Contains(body, "#")
  /\ \A i \in 1..Len(body) : body[i] \notin {"\"", "'"}
Prefixes(s) == {SubSeq(s, 1, n) : n \in 0..Len(s)}
RawOfTzLine == SubSeq(env_file.lines[1], Len(S_TZ_eq) + 1, Len(env_file.lines[1]))

\* C9: Inline comment stripping.  Only a trailing comment that starts at an
\* unquoted '#' is removed from a value: `KEY=value  # comment` yields
\* exactly `value`, and a '#' inside a quoted value stays part of the value.
C9_InlineComment ==
  (pc = "loaded" /\ env_file.exists /\ Len(env_file.lines) = 1
     /\ StartsWith(env_file.lines[1], S_TZ_eq) /\ DOMAIN environ = {}) =>
     /\ \A value \in Prefixes(RawOfTzLine) :
          TrailingComment(RawOfTzLine, value) =>
             result.status = "returned" /\ result.config.timezone = value
     /\ QuotedWithHash(RawOfTzLine, SubSeq(RawOfTzLine, 2, Len(RawOfTzLine) - 1)) =>
          /\ result.status = "returned"
          /\ result.config.timezone = SubSeq(RawOfTzLine, 2, Len(RawOfTzLine) - 1)

\* the lines from_env_file is to ignore
Blank(line) == \A i \in 1..Len(line) : line[i] \in Whitespace
CommentLine(line) == ~Blank(line) /\ DropLeading(line, Whitespace)[1] = "#"
KeyText(line) == Trimmed(Pieces(line, {"="}, <<>>)[1], Whitespace)
Ignorable(line) ==
  \/ Blank(line)
  \/ CommentLine(line)
  \/ ~Contains(line, "=")
  \/ KeyText(line) \notin EnvVars
RECURSIVE WithoutIgnorable(_)
WithoutIgnorable(lines) ==
  IF lines = <<>> THEN <<>>
  ELSE IF Ignorable(Head(lines)) THEN WithoutIgnorable(Tail(lines))
  ELSE <<Head(lines)>> \o WithoutIgnorable(Tail(lines))
SameOutcome(r) == r.kwargs = kwargs /\ r.result = result

\* C10: Ignored input is never fatal and never changes the result.  A
\* missing file, blank lines, comment lines, lines without '=' and lines
\* with an unrecognized key cause no error, and from_env_file returns what
\* it returns for the same input without those lines.
C10_IgnoredInput ==
  pc = "loaded" =>
     /\ SameOutcome(from_env_file(File(WithoutIgnorable(env_file.lines)), environ))
     /\ (WithoutIgnorable(env_file.lines) = <<>> /\ DOMAIN environ = {}) =>
           result = Returned(Defaults)

C10_Witness ==
  /\ pc = "loaded"
  /\ env_file = File(<< <<"n","o","v","a","l","u","e">>, <<"H","O","S","T","N","A","M","E","=","f","r","o","m","f","i","l","e">> >>)
  /\ warned = <<1>>
  /\ result.status = "returned"
  /\ result.config.hostname = <<"f","r","o","m","f","i","l","e">>

(***************************************************************************)
(* Properties of the progress reporter.                                    *)
(***************************************************************************)
\* the step an index refers to is the one that was created: same name,
\* description and start time
SameStep(step, created) ==
  /\ step.name = created.name
  /\ step.description = created.description
  /\ step.started = created.started

\* C11: start_step appends exactly one new step with its start time set and
\* returns its 0-based index.  The steps are append-only: there is one step
\* per start_step call, in the order of the calls; the k-th call returned
\* k-1, and that index still refers to the step the call created.
C11_AppendOnly ==
  /\ Len(steps) = Len(returned)
  /\ \A k \in 1..Len(returned) :
       /\ returned[k].index = k - 1
       /\ InRange(returned[k].index, steps)
       /\ SameStep(steps[returned[k].index + 1], returned[k].step)
       /\ steps[returned[k].index + 1].started.some
  /\ output.op = "start_step" =>
       /\ output.ret = Len(steps) - 1
       /\ steps[output.ret + 1] = returned[Len(returned)].step
       /\ current_step = output.ret + 1

C11_Witness ==
  /\ Len(steps) = 2 /\ returned[2].index = 1
  /\ steps[1].completed.some /\ steps[2].error.some
  /\ steps[2].name = "partition"
  /\ output.op = "fail_step"

\* nothing of the reporter but its steps may have changed
RestUnchanged == UNCHANGED <<total_steps, current_step, start_time>>
\* the steps differ at most in the field of step i the second argument names
OnlyErrorOf(i) ==
  /\ Len(steps') = Len(steps)
  /\ \A j \in 1..Len(steps) :
       /\ steps'[j].name = steps[j].name
       /\ steps'[j].description = steps[j].description
       /\ steps'[j].started = steps[j].started
       /\ steps'[j].completed = steps[j].completed
       /\ j # i => steps'[j].error = steps[j].error
OnlyCompletionOf(i) ==
  /\ Len(steps') = Len(steps)
  /\ \A j \in 1..Len(steps) :
       /\ steps'[j].name = steps[j].name
       /\ steps'[j].description = steps[j].description
       /\ steps'[j].started = steps[j].started
       /\ steps'[j].error = steps[j].error
       /\ j # i => steps'[j].completed = steps[j].completed
FailStepFrame ==
  output'.op = "fail_step" =>
     /\ RestUnchanged
     /\ IF InRange(output'.step_index, steps)
        THEN OnlyErrorOf(output'.step_index + 1) /\ steps'[output'.step_index + 1].error.some
        ELSE steps' = steps
CompleteStepFrame ==
  output'.op = "complete_step" =>
     /\ RestUnchanged
     /\ IF InRange(output'.step_index, steps)
        THEN /\ OnlyCompletionOf(output'.step_index + 1)
             /\ steps'[output'.step_index + 1].completed.some
        ELSE steps' = steps

\* C12: Frame of step mutation.  fail_step(i, msg) changes only the error
\* field of step i and sets no completion time; complete_step(i) changes
\* only the completion time of step i; with an index out of range (negative
\* or >= the number of steps) neither changes any state of the reporter.
C12_MutationFrame == [][FailStepFrame /\ CompleteStepFrame]_vars

C12_Witness ==
  /\ output.op = "fail_step" /\ InRange(output.step_index, steps)
  /\ Len(steps) = 2
  /\ steps[output.step_index + 1].error = Text("Simulated failure")
  /\ ~steps[output.step_index + 1].completed.some
  /\ steps[3 - (output.step_index + 1)].completed.some

\* the step has received a completion or a failure
Mutated(step) == step.completed.some \/ step.error.some

\* C13: Step lifecycle.  Once a step has received its completion or its
\* failure, no later complete_step or fail_step call changes it: it never
\* holds both, and no second completion or failure overwrites the first.
C13_MutatedOnce ==
  [][\A i \in 1..Len(steps) : Mutated(steps[i]) => steps'[i] = steps[i]]_vars

\* C14: Duration.  For every step that was started and then completed the
\* recorded duration is defined, not negative and equal to the completion
\* time minus the start time; for a step that was not completed it is
\* absent.
C14_Duration ==
  \A i \in 1..Len(steps) :
     IF steps[i].started.some /\ steps[i].completed.some
     THEN /\ duration(steps[i]).some
          /\ duration(steps[i]).v >= 0
          /\ duration(steps[i]).v = steps[i].completed.v - steps[i].started.v
     ELSE ~duration(steps[i]).some

\* the same for the steps whose completion did not read the clock lower
\* than their start did
C14_DurationForwardClock ==
  \A i \in 1..Len(steps) :
     IF steps[i].started.some /\ steps[i].completed.some
     THEN steps[i].completed.v >= steps[i].started.v =>
            /\ duration(steps[i]).some
            /\ duration(steps[i]).v >= 0
            /\ duration(steps[i]).v = steps[i].completed.v - steps[i].started.v
     ELSE ~duration(steps[i]).some

\* the steps that hold an error / a completion time, counted one step at a
\* time from the front
RECURSIVE StepsWithError(_)
StepsWithError(ss) ==
  IF ss = <<>> THEN 0
  ELSE (IF Head(ss).error # NoText THEN 1 ELSE 0) + StepsWithError(Tail(ss))
RECURSIVE StepsWithCompletion(_)
StepsWithCompletion(ss) ==
  IF ss = <<>> THEN 0
  ELSE (IF Head(ss).completed # NoTime THEN 1 ELSE 0) + StepsWithCompletion(Tail(ss))
\* the listing names exactly the steps with an error, by their 1-based
\* position, in order, each with its name and error
ListsTheFailed(lines) ==
  /\ {lines[k].n : k \in 1..Len(lines)} = {i \in 1..Len(steps) : steps[i].error # NoText}
  /\ \A k \in 1..Len(lines) :
       /\ lines[k].name = steps[lines[k].n].name
       /\ lines[k].error = steps[lines[k].n].error.v
       /\ k > 1 => lines[k - 1].n < lines[k].n

\* C15: Summary counts.  The failed-step count that show_summary and
\* get_status_json report is the number of steps with a recorded error, the
\* completed-step count is the number of steps with a completion time, and
\* the failed steps show_summary lists are exactly the steps with a
\* recorded error.
C15_SummaryCounts ==
  /\ output.op \in {"show_summary", "get_status_json"} =>
       /\ output.report.failed_steps = StepsWithError(steps)
       /\ output.report.completed_steps = StepsWithCompletion(steps)
       /\ output.report.total_steps = Len(steps)
  /\ output.op = "show_summary" => ListsTheFailed(output.report.failed)

C15_Witness ==
  /\ output.op = "show_summary"
  /\ Len(steps) = 2
  /\ steps[1].completed.some /\ ~steps[1].error.some
  /\ steps[2].error = Text("") /\ ~steps[2].completed.some
  /\ output.report.failed_steps = 1 /\ output.report.completed_steps = 1
  /\ Len(output.report.failed) = 1 /\ output.report.failed[1].n = 2

(***************************************************************************)
(* Quote trimming in from_env_file.                                        *)
(***************************************************************************)
\* one layer of matching quotes removed: the same quote character at both
\* ends goes, anything else stays
Unquoted(s) ==
  IF Len(s) >= 2 /\ s[1] \in {"\"", "'"} /\ s[Len(s)] = s[1]
  THEN SubSeq(s, 2, Len(s) - 1)
  ELSE s

\* C16: Quote trimming.  The value of a line, after the split on the first
\* '=', loses its surrounding whitespace and then exactly one layer of
\* matching quote characters; an unmatched quote and a second, inner layer
\* of quotes stay in the value.  (Stated for the values without '#', which
\* hold no comment.)
C16_QuoteTrimming ==
  (pc = "loaded" /\ env_file.exists /\ Len(env_file.lines) = 1
     /\ StartsWith(env_file.lines[1], S_TZ_eq) /\ DOMAIN environ = {}
     /\ ~Contains(RawOfTzLine, "#")) =>
     /\ result.status = "returned"
     /\ result.config.timezone = Unquoted(Trimmed(RawOfTzLine, Whitespace))

====
